---------------------------- MODULE Spec2Model ----------------------------
(***************************************************************************)
(* LaggIT: the fixed-point Currency type (common/src/models/currency.rs)   *)
(* and the User request guard (backend/src/models/user.rs).                *)
(*                                                                         *)
(* Strings are sequences of characters; a character is a one-element       *)
(* string, except "u0663", which stands for ARABIC-INDIC DIGIT THREE, a    *)
(* decimal digit of the regex class \d that is not an ASCII digit and is   *)
(* two bytes long in UTF-8.                                                *)
(***************************************************************************)
EXTENDS Integers, Sequences, FiniteSets, TLC

VARIABLES
    overflow_checks, \* build profile: TRUE = arithmetic overflow panics, FALSE = wraps
    pc,              \* position of the running scenario
    origin,          \* "value": the text comes from Display; "text": a raw input
    cur,             \* the Currency being displayed (its i32 of hundredths)
    s,               \* the text handed to from_str
    res,             \* what from_str returned
    a, b,            \* the two operands of the arithmetic scenario (i32)
    a2,              \* the `let mut a2` accumulator of the arithmetic scenario
    k,               \* how many steps of the arithmetic scenario have run
    verdict,         \* of the arithmetic scenario: "running", "passed", "assert_failed", "panicked"
    pool_managed,    \* the DatabasePool is managed state of the Rocket instance
    users,           \* the names in the users table
    lifetime,        \* the environment variable SESSION_LIFETIME
    now,             \* SystemTime::now(), in seconds since the epoch
    cookie,          \* the client's private cookie "session"
    outcome,         \* the Outcome of the request being answered, NoOutcome between requests
    db_calls,        \* what that request did with the database, in order
    model,           \* the frontend's Model
    changed,         \* a Msg::ChangePage has been processed
    rendered         \* what the last call of view drew

currencyVars == <<pc, origin, cur, s, res>>
arithVars == <<a, b, a2, k, verdict>>
authVars == <<pool_managed, users, lifetime, now, cookie, outcome, db_calls>>
appVars == <<model, changed, rendered>>
vars == <<overflow_checks, pc, origin, cur, s, res, a, b, a2, k, verdict,
          pool_managed, users, lifetime, now, cookie, outcome, db_calls,
          model, changed, rendered>>

-----------------------------------------------------------------------------
(* The backing integer: pub struct Currency(i32).                          *)

MaxI32 == 2147483647
MinI32 == -MaxI32 - 1

(* Bounds of the model. *)
MaxLen == 4       \* longest raw input enumerated character by character
SmallAbs == 250   \* Currency values -SmallAbs..SmallAbs are sampled
EdgeSpan == 120   \* and the EdgeSpan values next to i32::MIN and i32::MAX
MaxTime == 3      \* the clock reads 0..MaxTime
MaxLifetime == 2  \* SESSION_LIFETIME, when a number, is 0..MaxLifetime
MaxPageUpdates == 1    \* changes a page model records after its construction
MaxResourceMsgs == 1   \* ResourceMsg the ResourceStore records
MaxNotifications == 1  \* NotificationMessage the NotificationManager records

-----------------------------------------------------------------------------
(* Characters.                                                             *)

AsciiDigits == <<"0", "1", "2", "3", "4", "5", "6", "7", "8", "9">>
AsciiDigitSet == {AsciiDigits[i] : i \in 1..10}
UnicodeDigit == "u0663"

\* char::is_whitespace, which str::trim strips and the regex class \s matches
IsWhitespace(c) == c = " "
\* the regex class \d (Unicode decimal digits: the regex crate's default)
IsDigit(c) == c \in AsciiDigitSet \cup {UnicodeDigit}
\* char::to_digit(10), as used by i32::from_str: ASCII digits only
DigitValue(c) == (CHOOSE i \in 1..10 : AsciiDigits[i] = c) - 1
\* UTF-8 length of a character
ByteWidth(c) == IF c = UnicodeDigit THEN 2 ELSE 1

RECURSIVE ByteLen(_)
ByteLen(str) == IF str = <<>> THEN 0 ELSE ByteWidth(Head(str)) + ByteLen(Tail(str))

-----------------------------------------------------------------------------
(* i32 arithmetic. A result is [panic, v]: unchecked operators panic on    *)
(* overflow when the build has overflow checks and wrap otherwise.         *)

I32(v) == [panic |-> FALSE, v |-> v]
PANIC == [panic |-> TRUE, v |-> 0]

AddOverflows(x, y) ==
    \/ y > 0 /\ x > MaxI32 - y
    \/ y < 0 /\ x < MinI32 - y

\* x + y modulo 2^32, as a two's complement i32
WrapAdd(x, y) ==
    IF y > 0 /\ x > MaxI32 - y THEN (x + MinI32) + (y + MinI32)
    ELSE IF y < 0 /\ x < MinI32 - y THEN (x - MinI32) + (y - MinI32)
    ELSE x + y

\* -y modulo 2^32
WrapNeg(y) == IF y = MinI32 THEN MinI32 ELSE -y

SubOverflows(x, y) ==
    \/ y < 0 /\ x > MaxI32 + y
    \/ y > 0 /\ x < MinI32 + y

WrapSub(x, y) == IF y = MinI32 THEN WrapAdd(WrapAdd(x, MaxI32), 1) ELSE WrapAdd(x, -y)

\* x * 10 modulo 2^32
WrapMul10(x) ==
    LET x2 == WrapAdd(x, x)
        x4 == WrapAdd(x2, x2)
        x5 == WrapAdd(x4, x)
    IN WrapAdd(x5, x5)

Mul10Overflows(x) == x > MaxI32 \div 10 \/ x < -(MaxI32 \div 10)

-----------------------------------------------------------------------------
(* impl Currency, and its operators.                                       *)

\* i32 `/` by a positive divisor: truncates toward zero
TruncDiv(x, d) == IF x >= 0 THEN x \div d ELSE (x + (d - 1)) \div d

\* Currency::whole: self.0 / 100
whole(v) == TruncDiv(v, 100)

\* Currency::fractional: self.0 % 100, the sign follows self.0
fractional(v) == v - whole(v) * 100

\* i32::abs, of an operand that is never i32::MIN here (|whole| <= 21474836)
I32Abs(x) == IF x < 0 THEN -x ELSE x

\* Add for Currency: Currency(self.0 + other.0), unchecked
add(x, y) ==
    IF x.panic \/ y.panic THEN PANIC
    ELSE IF ~AddOverflows(x.v, y.v) THEN I32(x.v + y.v)
    ELSE IF overflow_checks THEN PANIC
    ELSE I32(WrapAdd(x.v, y.v))

\* Sub for Currency: Currency(self.0 - other.0), unchecked
sub(x, y) ==
    IF x.panic \/ y.panic THEN PANIC
    ELSE IF ~SubOverflows(x.v, y.v) THEN I32(x.v - y.v)
    ELSE IF overflow_checks THEN PANIC
    ELSE I32(WrapSub(x.v, y.v))

\* AddAssign for Currency: self.0 += other.0, unchecked
add_assign(self, other) ==
    IF self.panic \/ other.panic THEN PANIC
    ELSE IF ~AddOverflows(self.v, other.v) THEN I32(self.v + other.v)
    ELSE IF overflow_checks THEN PANIC
    ELSE I32(WrapAdd(self.v, other.v))

\* sub_assign with `+=` where the code has `-=`
sub_assign_adds(self, other) ==
    IF self.panic \/ other.panic THEN PANIC
    ELSE IF ~AddOverflows(self.v, other.v) THEN I32(self.v + other.v)
    ELSE IF overflow_checks THEN PANIC
    ELSE I32(WrapAdd(self.v, other.v))

\* SubAssign for Currency: self.0 -= other.0, unchecked
sub_assign(self, other) ==
    IF self.panic \/ other.panic THEN PANIC
    ELSE IF ~SubOverflows(self.v, other.v) THEN I32(self.v - other.v)
    ELSE IF overflow_checks THEN PANIC
    ELSE I32(WrapSub(self.v, other.v))

\* Neg for Currency: Currency(-self.0), unchecked
neg(x) ==
    IF x.panic THEN PANIC
    ELSE IF x.v # MinI32 THEN I32(-x.v)
    ELSE IF overflow_checks THEN PANIC
    ELSE I32(WrapNeg(x.v))

-----------------------------------------------------------------------------
(* Display for Currency.                                                   *)

\* write!(f, "{}", n) of a non-negative i32: its decimal digits
RECURSIVE Dec(_)
Dec(n) == IF n < 10 THEN <<AsciiDigits[n + 1]>>
          ELSE Dec(n \div 10) \o <<AsciiDigits[(n % 10) + 1]>>

\* write!(f, "{:02}", n) of a non-negative i32: at least two digits, zero-padded
Pad2(n) == IF n < 10 THEN <<"0">> \o Dec(n) ELSE Dec(n)

\* fmt with "{}" where the code has "{:02}": the fractional part is not zero-padded
fmt_unpadded(v) ==
    (IF v < 0 THEN <<"-">> ELSE <<>>)
    \o Dec(I32Abs(whole(v)))
    \o (IF fractional(v) # 0 THEN <<".">> \o Dec(I32Abs(fractional(v))) ELSE <<>>)

\* Display::fmt
fmt(v) ==
    (IF v < 0 THEN <<"-">> ELSE <<>>)
    \o Dec(I32Abs(whole(v)))
    \o (IF fractional(v) # 0 THEN <<".">> \o Pad2(I32Abs(fractional(v))) ELSE <<>>)

-----------------------------------------------------------------------------
(* FromStr for Currency.                                                   *)

Ok(v) == [tag |-> "Ok", val |-> v, err |-> "None"]
Err(e) == [tag |-> "Err", val |-> 0, err |-> e]
\* a fault instead of a return: a failed expect, or an arithmetic overflow panic
Fault == [tag |-> "Panic", val |-> 0, err |-> "None"]
NoResult == [tag |-> "None", val |-> 0, err |-> "None"]

\* str::trim: strips leading and trailing whitespace
RECURSIVE TrimStart(_)
TrimStart(str) ==
    IF str # <<>> /\ IsWhitespace(Head(str)) THEN TrimStart(Tail(str)) ELSE str

RECURSIVE TrimEnd(_)
TrimEnd(str) ==
    IF str # <<>> /\ IsWhitespace(str[Len(str)])
    THEN TrimEnd(SubSeq(str, 1, Len(str) - 1))
    ELSE str

trim(str) == TrimEnd(TrimStart(str))

\* the first position >= i of str that holds no whitespace (Len(str) + 1 if none)
RECURSIVE SkipSpaces(_, _)
SkipSpaces(str, i) ==
    IF i <= Len(str) /\ IsWhitespace(str[i]) THEN SkipSpaces(str, i + 1) ELSE i

\* the first position >= i of str that holds no \d (Len(str) + 1 if none)
RECURSIVE SkipDigits(_, _)
SkipDigits(str, i) ==
    IF i <= Len(str) /\ IsDigit(str[i]) THEN SkipDigits(str, i + 1) ELSE i

NoMatch == [matched |-> FALSE, neg |-> FALSE, has_whole |-> FALSE, whole |-> <<>>,
            has_frac |-> FALSE, frac |-> <<>>]

\* the pattern without its \s*? : ^(?P<neg>-)?(?P<whole>\d+)(\.(?P<frac>\d+))?$
CURRENCY_RE_no_gap(str) ==
    LET n == IF str # <<>> /\ Head(str) = "-" THEN 1 ELSE 0
        i == n + 1
        j == SkipDigits(str, i)
        f == SkipDigits(str, j + 1)
    IN IF j = i THEN NoMatch
       ELSE IF j = Len(str) + 1
       THEN [matched |-> TRUE, neg |-> n = 1, has_whole |-> TRUE,
             whole |-> SubSeq(str, i, j - 1), has_frac |-> FALSE, frac |-> <<>>]
       ELSE IF str[j] = "." /\ f > j + 1 /\ f = Len(str) + 1
       THEN [matched |-> TRUE, neg |-> n = 1, has_whole |-> TRUE,
             whole |-> SubSeq(str, i, j - 1), has_frac |-> TRUE,
             frac |-> SubSeq(str, j + 1, Len(str))]
       ELSE NoMatch

\* CURRENCY_RE.captures: ^(?P<neg>-)?\s*?(?P<whole>\d+)(\.(?P<frac>\d+))?$
\* The classes '-', \s, \d and '.' are disjoint, so a match is unique and a
\* left-to-right scan finds it.
CURRENCY_RE(str) ==
    LET n == IF str # <<>> /\ Head(str) = "-" THEN 1 ELSE 0
        i == SkipSpaces(str, n + 1)
        j == SkipDigits(str, i)
        f == SkipDigits(str, j + 1)
    IN IF j = i THEN NoMatch
       ELSE IF j = Len(str) + 1
       THEN [matched |-> TRUE, neg |-> n = 1, has_whole |-> TRUE,
             whole |-> SubSeq(str, i, j - 1), has_frac |-> FALSE, frac |-> <<>>]
       ELSE IF str[j] = "." /\ f > j + 1 /\ f = Len(str) + 1
       THEN [matched |-> TRUE, neg |-> n = 1, has_whole |-> TRUE,
             whole |-> SubSeq(str, i, j - 1), has_frac |-> TRUE,
             frac |-> SubSeq(str, j + 1, Len(str))]
       ELSE NoMatch

\* str::parse::<i32> of a run of \d characters: Err on a character that is no
\* ASCII digit and on a value above i32::MAX
RECURSIVE ParseDigits(_, _, _)
ParseDigits(run, i, acc) ==
    IF i > Len(run) THEN [ok |-> TRUE, v |-> acc]
    ELSE IF run[i] \notin AsciiDigitSet THEN [ok |-> FALSE, v |-> 0]
    ELSE IF acc > MaxI32 \div 10 THEN [ok |-> FALSE, v |-> 0]
    ELSE IF acc * 10 > MaxI32 - DigitValue(run[i]) THEN [ok |-> FALSE, v |-> 0]
    ELSE ParseDigits(run, i + 1, acc * 10 + DigitValue(run[i]))

ParseI32(run) ==
    IF run = <<>> THEN [ok |-> FALSE, v |-> 0] ELSE ParseDigits(run, 1, 0)

\* the scaling left out
ScaleFrac_never(frac_s, frac) == I32(frac)

\* the scaling applied to every fraction: `frac_s.len() >= 1`
ScaleFrac_always(frac_s, frac) ==
    IF ~Mul10Overflows(frac) THEN I32(frac * 10)
    ELSE IF overflow_checks THEN PANIC
    ELSE I32(WrapMul10(frac))

\* if frac_s.len() == 1 { frac *= 10; }  (len() counts bytes; `*=` is unchecked)
ScaleFrac(frac_s, frac) ==
    IF ByteLen(frac_s) = 1
    THEN IF ~Mul10Overflows(frac) THEN I32(frac * 10)
         ELSE IF overflow_checks THEN PANIC
         ELSE I32(WrapMul10(frac))
    ELSE I32(frac)

\* the range check with an inclusive end: !(0..=100).contains(&frac)
FracOutOfRange_inclusive(frac) == ~(0 <= frac /\ frac <= 100)

\* !(0..100).contains(&frac)
FracOutOfRange(frac) == ~(0 <= frac /\ frac < 100)

\* saturating_mul / saturating_add where the code has checked_mul / checked_add
Combine_saturating(neg_, whole_, frac_) ==
    IF whole_ > MaxI32 \div 100 \/ whole_ * 100 > MaxI32 - frac_
    THEN [some |-> TRUE, v |-> IF neg_ THEN -MaxI32 ELSE MaxI32]
    ELSE IF neg_ THEN [some |-> TRUE, v |-> -(whole_ * 100 + frac_)]
    ELSE [some |-> TRUE, v |-> whole_ * 100 + frac_]

\* whole.checked_mul(100).and_then(checked_add(frac)).and_then(neg: checked_mul(-1))
\* whole and frac are non-negative here. [some, v]
Combine(neg_, whole_, frac_) ==
    IF whole_ > MaxI32 \div 100 THEN [some |-> FALSE, v |-> 0]
    ELSE IF whole_ * 100 > MaxI32 - frac_ THEN [some |-> FALSE, v |-> 0]
    ELSE IF ~neg_ THEN [some |-> TRUE, v |-> whole_ * 100 + frac_]
    ELSE IF whole_ * 100 + frac_ = MinI32 THEN [some |-> FALSE, v |-> 0]
    ELSE [some |-> TRUE, v |-> -(whole_ * 100 + frac_)]

\* Currency::from_str
from_str(str) ==
    LET t == trim(str)
        captures == CURRENCY_RE(t)
    IN IF ~captures.matched THEN Err("MatchFailed")
       ELSE IF ~captures.has_whole THEN Fault   \* .expect("regex group did not exist")
       ELSE
         LET wholeP == ParseI32(captures.whole)
             frac_s == IF captures.has_frac THEN captures.frac ELSE <<"0", "0">>
             fracP == ParseI32(frac_s)
         IN IF ~wholeP.ok THEN Err("IntegerOverflow")
            ELSE IF ~fracP.ok THEN Err("IntegerOverflow")
            ELSE
              LET frac == ScaleFrac(frac_s, fracP.v)
              IN IF frac.panic THEN Fault
                 ELSE IF FracOutOfRange(frac.v) THEN Err("FracGreaterThan99")
                 ELSE
                   LET num == Combine(captures.neg, wholeP.v, frac.v)
                   IN IF ~num.some THEN Err("IntegerOverflow") ELSE Ok(num.v)

-----------------------------------------------------------------------------
(* The User request guard: Session, make_user_session, get_user and        *)
(* FromRequest for User.                                                   *)

Names == {"alice", "bob"}

\* the private cookie "session": absent (or failing decryption), holding text
\* that is no JSON Session, or holding a serialized Session
NoCookie == [kind |-> "absent", username |-> "none", last_seen |-> 0]
GarbageCookie == [kind |-> "undecodable", username |-> "none", last_seen |-> 0]
SessionCookie(u, t) == [kind |-> "session", username |-> u, last_seen |-> t]

\* env::var("SESSION_LIFETIME")
Unset == [kind |-> "unset", n |-> 0]
Unparsable == [kind |-> "unparsable", n |-> 0]
Seconds(n) == [kind |-> "number", n |-> n]

\* request::Outcome<User, ()>
NoOutcome == [kind |-> "None", user |-> "none", status |-> 0]
Success(u) == [kind |-> "Success", user |-> u, status |-> 0]
Forward == [kind |-> "Forward", user |-> "none", status |-> 0]
Failure(status) == [kind |-> "Failure", user |-> "none", status |-> status]

InternalServerError == 500
Unauthorized == 401

\* make_user_session: a Session for the user, last seen now
make_user_session(u, t) == SessionCookie(u, t)

\* get_user: users.find(user_name).first(connection).ok()
get_user(user_name, table) == IF user_name \in table THEN Success(user_name) ELSE Forward

\* from_request with the expiry comparison turned round: `<` where the code has `>`
from_request_inverted(managed, c, life, unix_time, table, pool_ok) ==
    IF ~managed THEN [outcome |-> Failure(InternalServerError), db |-> <<>>]
    ELSE IF c.kind # "session" THEN [outcome |-> Forward, db |-> <<>>]
    ELSE IF life.kind = "number" /\ c.last_seen > unix_time
    THEN [outcome |-> Failure(InternalServerError), db |-> <<>>]
    ELSE IF life.kind = "number" /\ unix_time - c.last_seen < life.n
    THEN [outcome |-> Forward, db |-> <<>>]
    ELSE IF pool_ok
    THEN [outcome |-> get_user(c.username, table), db |-> <<"get", "find">>]
    ELSE [outcome |-> Failure(InternalServerError), db |-> <<"get">>]

\* User::from_request. [outcome, db]: the Outcome and the database calls made
from_request(managed, c, life, unix_time, table, pool_ok) ==
    \* let db_pool: State<DatabasePool> = request.guard()?;
    IF ~managed THEN [outcome |-> Failure(InternalServerError), db |-> <<>>]
    \* get_private(..).and_then(serde_json::from_str(..).ok()) is None
    ELSE IF c.kind # "session" THEN [outcome |-> Forward, db |-> <<>>]
    \* SESSION_LIFETIME is set and parses as a u64
    ELSE IF life.kind = "number" /\ c.last_seen > unix_time
    THEN [outcome |-> Failure(InternalServerError), db |-> <<>>]
    ELSE IF life.kind = "number" /\ unix_time - c.last_seen > life.n
    THEN [outcome |-> Forward, db |-> <<>>]
    \* db_pool.inner().get()
    ELSE IF pool_ok
    THEN [outcome |-> get_user(c.username, table), db |-> <<"get", "find">>]
    ELSE [outcome |-> Failure(InternalServerError), db |-> <<"get">>]

-----------------------------------------------------------------------------
(* The frontend: Model, init, update and view of app.rs.                   *)

Pages == {"Store", "TransactionHistory", "Analytics", "Deposit", "NotFound"}

\* Option<StorePage> and the like: None, or Some page model that has recorded
\* `updates` changes since its construction
NonePage == [some |-> FALSE, updates |-> 0]
SomePage(n) == [some |-> TRUE, updates |-> n]

\* StorePage::new, TransactionsPage::new, AnalyticsPage::new, DepositionPage::new
NewPage == SomePage(0)

\* Option::get_or_insert_with
get_or_insert_with(opt, new) == IF opt.some THEN opt ELSE new

\* the Model that init returns
init ==
    [ page |-> "Store", error |-> "none",
      store_page |-> NonePage, transactions_page |-> NonePage,
      analytics_page |-> NonePage, deposition_page |-> NonePage,
      rs |-> 0, notifications |-> 0 ]

\* the closure init subscribes to UrlChanged: url.remaining_path_parts() to a Page
route(parts) ==
    IF parts \in {<<>>, <<"">>, <<"store">>} THEN "Store"
    ELSE IF parts = <<"transactions">> THEN "TransactionHistory"
    ELSE IF parts = <<"analytics">> THEN "Analytics"
    ELSE IF parts = <<"deposit">> THEN "Deposit"
    ELSE "NotFound"

\* Msg::ChangePage with `model.transactions_page = None` after the match
\* where the code has it before
ChangePage_clears_last(m, page) ==
    LET m1 == [m EXCEPT !.page = page]
        m2 == CASE page = "Store" ->
                     [m1 EXCEPT !.store_page = get_or_insert_with(@, NewPage)]
                [] page = "TransactionHistory" ->
                     [m1 EXCEPT !.transactions_page = NewPage]
                [] page = "Analytics" ->
                     [m1 EXCEPT !.analytics_page = get_or_insert_with(@, NewPage)]
                [] page = "Deposit" ->
                     [m1 EXCEPT !.deposition_page = get_or_insert_with(@, NewPage)]
                [] page = "NotFound" -> m1
    IN [m2 EXCEPT !.transactions_page = NonePage]

\* update, Msg::ChangePage(page)
ChangePage(m, page) ==
    LET m1 == [m EXCEPT !.page = page, !.transactions_page = NonePage]
    IN CASE page = "Store" ->
              [m1 EXCEPT !.store_page = get_or_insert_with(@, NewPage)]
         [] page = "TransactionHistory" ->
              [m1 EXCEPT !.transactions_page = NewPage]
         [] page = "Analytics" ->
              [m1 EXCEPT !.analytics_page = get_or_insert_with(@, NewPage)]
         [] page = "Deposit" ->
              [m1 EXCEPT !.deposition_page = get_or_insert_with(@, NewPage)]
         [] page = "NotFound" -> m1

\* opt.as_mut().and_then(|p| p.update(msg, &rs, orders).ok()): a page model that
\* is there handles the message in place and may change; None stays None
page_update(opt, changes) ==
    IF opt.some /\ changes THEN SomePage(opt.updates + 1) ELSE opt

\* update, Msg::FetchedApiVersion(response): the response parses as a Version or
\* not, and compare_semver accepts it or not
FetchedApiVersion(m, parses, compatible) ==
    IF parses
    THEN IF ~compatible THEN [m EXCEPT !.error = "Mismatching api version."] ELSE m
    ELSE [m EXCEPT !.error = "Failed to parse server api version."]

\* update
update(msg, m) ==
    CASE msg.kind = "ChangePage" -> ChangePage(m, msg.page)
      [] msg.kind = "ResourceMsg" -> [m EXCEPT !.rs = @ + 1]
      [] msg.kind = "ShowError" -> [m EXCEPT !.error = msg.header]
      [] msg.kind = "FetchedApiVersion" -> FetchedApiVersion(m, msg.parses, msg.compatible)
      [] msg.kind = "DepositionMsg" ->
           [m EXCEPT !.deposition_page = page_update(@, msg.changes)]
      [] msg.kind = "AnalyticsMsg" ->
           [m EXCEPT !.analytics_page = page_update(@, msg.changes)]
      [] msg.kind = "TransactionsMsg" ->
           [m EXCEPT !.transactions_page = page_update(@, msg.changes)]
      [] msg.kind = "StoreMsg" ->
           [m EXCEPT !.store_page = page_update(@, msg.changes)]
      [] msg.kind = "NotificationMessage" -> [m EXCEPT !.notifications = @ + 1]

\* Option::unwrap of a page model, then its view: a panic on None
unwrap_view(opt, name) == IF opt.some THEN name ELSE "panic"

\* view: what is drawn below the header
view(m) ==
    IF m.error # "none" THEN "error_page"
    ELSE CASE m.page = "Analytics" -> unwrap_view(m.analytics_page, "Analytics")
           [] m.page = "Store" -> unwrap_view(m.store_page, "Store")
           [] m.page = "Deposit" -> unwrap_view(m.deposition_page, "Deposit")
           [] m.page = "TransactionHistory" ->
                unwrap_view(m.transactions_page, "TransactionHistory")
           [] m.page = "NotFound" -> "404"

-----------------------------------------------------------------------------
(* The inputs.                                                             *)

Alphabet == {"-", " ", ".", "0", "5", "x", UnicodeDigit}

\* every string over Alphabet of at most MaxLen characters
ShortStrings == UNION {[1..n -> Alphabet] : n \in 0..MaxLen}

WholeRuns ==
    { Dec(0), Dec(7), Dec(12), <<"0", "0">> \o Dec(7),
      Dec(MaxI32 \div 100), Dec(MaxI32 \div 100 + 1),
      Dec(MaxI32), Dec(MaxI32 \div 10) \o <<"8">>, Dec(MaxI32) \o <<"0">> }

FracRuns ==
    { Dec(0), Dec(5), Dec(9), Pad2(0), Pad2(5), Pad2(47), Pad2(48), Pad2(50), Pad2(99),
      Dec(100), <<"0">> \o Pad2(5), Dec(123),
      <<"0", "0", "0", "0", "0", "0", "0", "0", "0", "0", "0", "1">>,
      Dec(MaxI32), Dec(MaxI32 \div 10) \o <<"8">>, Dec(MaxI32) \o <<"0">> }

SignParts == {<<>>, <<"-">>, <<"-", " ">>}
FracParts == {<<>>} \cup {<<".">> \o f : f \in FracRuns}

\* sign, whole part and fractional part put together, bare or padded with blanks
ComposedStrings ==
    LET core == {sg \o w \o f : sg \in SignParts, w \in WholeRuns, f \in FracParts}
    IN core \cup {<<" ">> \o c \o <<" ">> : c \in core}

\* the strings of test_currency_parsing and of the specification's examples
TestStrings ==
    { Dec(123) \o <<".">> \o Dec(123),
      Dec(123) \o <<".", "-">> \o Dec(3),
      <<"-">> \o Dec(123) \o <<".", "-">> \o Dec(23),
      Dec(123) \o <<".", "-">> \o Dec(123),
      <<"0", ".", "0", ".", "0">>,
      <<"3", ".", "5">>, <<"3", ".", "5", "0">>,
      <<"1", ".", "1", "0", "0">> }

Inputs == ShortStrings \cup ComposedStrings \cup TestStrings

\* the Currency values displayed: around zero, next to both ends of i32, and a few between
SampleValues ==
    (-SmallAbs..SmallAbs) \cup {MinI32 + i : i \in 0..EdgeSpan} \cup {MaxI32 - i : i \in 0..EdgeSpan}
    \cup {500, 512, -512, 9999, -9999, 3220, 9999999, -232323, 1000000, -1000000}

\* the operands of the arithmetic scenario
SampleOperands ==
    {-999, -100, -1, 0, 1, 5, 998}
    \cup {MinI32, MinI32 + 1, (MinI32 \div 2), MaxI32 \div 2, MaxI32 \div 2 + 1, MaxI32 - 1, MaxI32}

-----------------------------------------------------------------------------
(* Scenario 1: a Currency is displayed and the text parsed back, or a raw  *)
(* text is parsed.                                                         *)

ArithIdle == a = 0 /\ b = 0 /\ a2 = I32(0) /\ k = 0 /\ verdict = "idle"
AuthIdle ==
    /\ pool_managed = TRUE /\ users = {} /\ lifetime = Unset /\ now = 0
    /\ cookie = NoCookie /\ outcome = NoOutcome /\ db_calls = <<>>
AppIdle == model = init /\ changed = FALSE /\ rendered = "nothing"
CurrencyIdle == pc = "idle" /\ origin = "none" /\ cur = 0 /\ s = <<>> /\ res = NoResult

Init ==
    /\ overflow_checks \in BOOLEAN
    /\ res = NoResult
    /\ \/ origin = "value" /\ cur \in SampleValues /\ s = <<>> /\ pc = "display"
       \/ origin = "text" /\ cur = 0 /\ s \in Inputs /\ pc = "parse"
    /\ ArithIdle
    /\ AuthIdle
    /\ AppIdle

\* format!("{}", Currency(cur))
Display ==
    /\ pc = "display"
    /\ s' = fmt(cur)
    /\ pc' = "parse"
    /\ UNCHANGED <<overflow_checks, origin, cur, res, arithVars, authVars, appVars>>

\* s.parse::<Currency>()
FromStr ==
    /\ pc = "parse"
    /\ res' = from_str(s)
    /\ pc' = "parsed"
    /\ UNCHANGED <<overflow_checks, origin, cur, s, arithVars, authVars, appVars>>

Next == Display \/ FromStr

Spec == Init /\ [][Next]_vars

-----------------------------------------------------------------------------
(* Scenario 2: the body of test_currency_add_subtract on one pair (a, b):  *)
(* the eight assert_eq! on expressions, then                               *)
(*   let mut a2 = a; a2 += a; a2 -= a; a2 += b; a2 += b; a2 -= b + a;      *)
(* each followed by its assert_eq!. A panic or a failed assertion ends it. *)

InitArith ==
    /\ overflow_checks \in BOOLEAN
    /\ a \in SampleOperands
    /\ b \in SampleOperands
    /\ a2 = I32(a)
    /\ k = 0
    /\ verdict = "running"
    /\ CurrencyIdle
    /\ AuthIdle
    /\ AppIdle

\* assert_eq!(left, right): both sides are evaluated first
Checked(left, right) ==
    IF left.panic \/ right.panic THEN "panicked"
    ELSE IF left = right THEN "running"
    ELSE "assert_failed"

\* the verdict after a sequence of assertions: the first that does not pass decides
RECURSIVE FirstFailure(_)
FirstFailure(checks) ==
    IF checks = <<>> THEN "running"
    ELSE IF Head(checks) # "running" THEN Head(checks)
    ELSE FirstFailure(Tail(checks))

\* assert_eq!(a - a, 0.into()); ... assert_eq!(b + a - a, b);
ExprAsserts ==
    /\ k = 0 /\ verdict = "running"
    /\ LET A == I32(a)
           B == I32(b)
       IN verdict' = FirstFailure(<<
              Checked(sub(A, A), I32(0)),
              Checked(sub(B, B), I32(0)),
              Checked(sub(add(A, A), A), A),
              Checked(sub(add(B, A), B), A),
              Checked(sub(add(A, B), B), A),
              Checked(sub(add(B, B), B), B),
              Checked(sub(add(A, B), A), B),
              Checked(sub(add(B, A), A), B) >>)
    /\ k' = 1
    /\ UNCHANGED <<overflow_checks, a, b, a2, currencyVars, authVars, appVars>>

\* what the assert_eq! after the k-th step compares a2 with
Asserted(step) ==
    CASE step = 2 -> add(I32(a), I32(a))
      [] step = 3 -> I32(a)
      [] step = 4 -> add(I32(a), I32(b))
      [] step = 5 -> add(add(I32(a), I32(b)), I32(b))
      [] step = 6 -> I32(b)

Finish(step, v) == IF v = "running" /\ step = 6 THEN "passed" ELSE v

\* a2 += a; (first assignment)  a2 += b; (third and fourth)
AddAssign ==
    /\ k \in {1, 3, 4} /\ verdict = "running"
    /\ a2' = add_assign(a2, IF k = 1 THEN I32(a) ELSE I32(b))
    /\ k' = k + 1
    /\ verdict' = Finish(k', Checked(a2', Asserted(k')))
    /\ UNCHANGED <<overflow_checks, a, b, currencyVars, authVars, appVars>>

\* a2 -= a; (second assignment)  a2 -= b + a; (fifth)
SubAssign ==
    /\ k \in {2, 5} /\ verdict = "running"
    /\ a2' = sub_assign(a2, IF k = 2 THEN I32(a) ELSE add(I32(b), I32(a)))
    /\ k' = k + 1
    /\ verdict' = Finish(k', Checked(a2', Asserted(k')))
    /\ UNCHANGED <<overflow_checks, a, b, currencyVars, authVars, appVars>>

NextArith == ExprAsserts \/ AddAssign \/ SubAssign

SpecArith == InitArith /\ [][NextArith]_vars

-----------------------------------------------------------------------------
(* Scenario 3: a client, the clock, the users table and requests to a      *)
(* route guarded by User.                                                  *)

InitAuth ==
    /\ pool_managed = TRUE
    /\ users \in SUBSET Names
    /\ lifetime \in {Unset, Unparsable} \cup {Seconds(n) : n \in 0..MaxLifetime}
    /\ now \in 0..MaxTime
    /\ cookie \in {NoCookie, GarbageCookie}
    /\ outcome = NoOutcome
    /\ db_calls = <<>>
    /\ overflow_checks = FALSE
    /\ CurrencyIdle
    /\ ArithIdle
    /\ AppIdle

\* a login: the jar receives make_user_session(user) for a user of the table
MakeUserSession(u) ==
    /\ u \in users
    /\ cookie' = make_user_session(u, now)
    /\ outcome' = NoOutcome /\ db_calls' = <<>>
    /\ UNCHANGED <<pool_managed, users, lifetime, now, overflow_checks, currencyVars, arithVars, appVars>>

\* the system clock reads another time (it runs, or is set back)
ClockSet(t) ==
    /\ t # now
    /\ now' = t
    /\ outcome' = NoOutcome /\ db_calls' = <<>>
    /\ UNCHANGED <<pool_managed, users, lifetime, cookie, overflow_checks, currencyVars, arithVars, appVars>>

\* a row leaves the users table
RemoveUser(u) ==
    /\ u \in users
    /\ users' = users \ {u}
    /\ outcome' = NoOutcome /\ db_calls' = <<>>
    /\ UNCHANGED <<pool_managed, lifetime, now, cookie, overflow_checks, currencyVars, arithVars, appVars>>

\* a request reaches a route with a User parameter
FromRequest(pool_ok) ==
    /\ LET r == from_request(pool_managed, cookie, lifetime, now, users, pool_ok)
       IN outcome' = r.outcome /\ db_calls' = r.db
    /\ UNCHANGED <<pool_managed, users, lifetime, now, cookie, overflow_checks,
                   currencyVars, arithVars, appVars>>

NextAuth ==
    \/ \E u \in Names : MakeUserSession(u)
    \/ \E t \in 0..MaxTime : ClockSet(t)
    \/ \E u \in Names : RemoveUser(u)
    \/ \E pool_ok \in BOOLEAN : FromRequest(pool_ok)

SpecAuth == InitAuth /\ [][NextAuth]_vars

-----------------------------------------------------------------------------
(* Scenario 4: the frontend after init. Messages reach update in any       *)
(* order; view draws once a ChangePage has been processed (init notifies   *)
(* UrlChanged itself, which subscribers turn into the first ChangePage).   *)
(* A panic in view ends the application.                                   *)

\* url.remaining_path_parts() of the addresses visited
Paths ==
    { <<>>, <<"">>, <<"store">>, <<"transactions">>, <<"analytics">>, <<"deposit">>,
      <<"admin">>, <<"store", "1">> }

PageMsgKinds == {"DepositionMsg", "AnalyticsMsg", "TransactionsMsg", "StoreMsg"}

\* the page model a page message is for
Addressed(kind) ==
    CASE kind = "DepositionMsg" -> model.deposition_page
      [] kind = "AnalyticsMsg" -> model.analytics_page
      [] kind = "TransactionsMsg" -> model.transactions_page
      [] kind = "StoreMsg" -> model.store_page

Alive == rendered # "panic"

InitApp ==
    /\ model = init
    /\ changed = FALSE
    /\ rendered = "nothing"
    /\ overflow_checks = FALSE
    /\ CurrencyIdle
    /\ ArithIdle
    /\ AuthIdle

\* subs::UrlChanged(url): the subscription sends Msg::ChangePage(page)
UrlChanged(parts) ==
    /\ Alive
    /\ model' = update([kind |-> "ChangePage", page |-> route(parts)], model)
    /\ changed' = TRUE
    /\ UNCHANGED <<rendered, overflow_checks, currencyVars, arithVars, authVars>>

ResourceMsg ==
    /\ Alive
    /\ model.rs < MaxResourceMsgs
    /\ model' = update([kind |-> "ResourceMsg"], model)
    /\ UNCHANGED <<changed, rendered, overflow_checks, currencyVars, arithVars, authVars>>

ShowError ==
    /\ Alive
    /\ model' = update([kind |-> "ShowError", header |-> "Failed to contact server"], model)
    /\ UNCHANGED <<changed, rendered, overflow_checks, currencyVars, arithVars, authVars>>

FetchedApiVersionMsg(parses, compatible) ==
    /\ Alive
    /\ model' = update([kind |-> "FetchedApiVersion", parses |-> parses,
                        compatible |-> compatible], model)
    /\ UNCHANGED <<changed, rendered, overflow_checks, currencyVars, arithVars, authVars>>

\* Msg::DepositionMsg, Msg::AnalyticsMsg, Msg::TransactionsMsg, Msg::StoreMsg
PageMsg(kind, changes) ==
    /\ Alive
    /\ changes => Addressed(kind).updates < MaxPageUpdates
    /\ model' = update([kind |-> kind, changes |-> changes], model)
    /\ UNCHANGED <<changed, rendered, overflow_checks, currencyVars, arithVars, authVars>>

NotificationMessage ==
    /\ Alive
    /\ model.notifications < MaxNotifications
    /\ model' = update([kind |-> "NotificationMessage"], model)
    /\ UNCHANGED <<changed, rendered, overflow_checks, currencyVars, arithVars, authVars>>

\* the framework draws the model
View ==
    /\ Alive
    /\ changed
    /\ rendered' = view(model)
    /\ UNCHANGED <<model, changed, overflow_checks, currencyVars, arithVars, authVars>>

NextApp ==
    \/ \E parts \in Paths : UrlChanged(parts)
    \/ ResourceMsg
    \/ ShowError
    \/ \E parses \in BOOLEAN, compatible \in BOOLEAN : FetchedApiVersionMsg(parses, compatible)
    \/ \E kind \in PageMsgKinds, changes \in BOOLEAN : PageMsg(kind, changes)
    \/ NotificationMessage
    \/ View

SpecApp == InitApp /\ [][NextApp]_vars

-----------------------------------------------------------------------------
(* What the claims speak of, stated without the operators of the model.    *)

Parsed == pc = "parsed"
Displayed == origin = "value" /\ pc \in {"parse", "parsed"}

IsAsciiDigit(c) == c \in {"0", "1", "2", "3", "4", "5", "6", "7", "8", "9"}

AsciiValue ==
    [c \in {"0", "1", "2", "3", "4", "5", "6", "7", "8", "9"} |->
        CASE c = "0" -> 0 [] c = "1" -> 1 [] c = "2" -> 2 [] c = "3" -> 3 [] c = "4" -> 4
          [] c = "5" -> 5 [] c = "6" -> 6 [] c = "7" -> 7 [] c = "8" -> 8 [] c = "9" -> 9]

\* the number a run of ASCII digits denotes (of a run short enough for it to fit)
RECURSIVE RunValue(_)
RunValue(run) ==
    IF run = <<>> THEN 0
    ELSE 10 * RunValue(SubSeq(run, 1, Len(run) - 1)) + AsciiValue[run[Len(run)]]

AllAscii(run) == \A p \in 1..Len(run) : IsAsciiDigit(run[p])

\* the text as Display must write it: sign, whole digits, and the digits after the point
ShownNeg(str) == str # <<>> /\ str[1] = "-"
ShownBody(str) == IF ShownNeg(str) THEN Tail(str) ELSE str
ShownDots(str) == {p \in 1..Len(ShownBody(str)) : ShownBody(str)[p] = "."}
ShownWhole(str) ==
    IF ShownDots(str) = {} THEN ShownBody(str)
    ELSE SubSeq(ShownBody(str), 1, (CHOOSE p \in ShownDots(str) : TRUE) - 1)
ShownFrac(str) ==
    IF ShownDots(str) = {} THEN <<>>
    ELSE SubSeq(ShownBody(str), (CHOOSE p \in ShownDots(str) : TRUE) + 1, Len(ShownBody(str)))

\* the text with its leading and trailing whitespace removed
\* str[i..j] is str without its leading and trailing blanks
IsTrimOf(i, j, str) ==
    /\ \A p \in 1..(i - 1) : str[p] = " "
    /\ \A p \in (j + 1)..Len(str) : str[p] = " "
    /\ i <= j => str[i] # " " /\ str[j] # " "

Trimmed(str) ==
    LET ij == CHOOSE ij \in (1..(Len(str) + 1)) \X (0..Len(str)) : IsTrimOf(ij[1], ij[2], str)
    IN SubSeq(str, ij[1], ij[2])

\* The ways to read t as: '-' (n = 1) or nothing (n = 0), then blanks up to
\* position i, then digits up to position j, then nothing or '.' and digits.
\* gap: blanks are allowed after the sign; unicode: \d is not only ASCII.
Readings(t, gap, unicode) ==
    LET digit(c) == IsAsciiDigit(c) \/ (unicode /\ c = "u0663")
    IN { r \in (0..1) \X (0..Len(t)) \X (1..Len(t)) :
           /\ r[1] <= r[2] /\ r[2] < r[3]
           /\ r[1] = 1 => t[1] = "-"
           /\ gap \/ r[2] = r[1]
           /\ \A p \in (r[1] + 1)..r[2] : t[p] = " "
           /\ \A p \in (r[2] + 1)..r[3] : digit(t[p])
           /\ \/ r[3] = Len(t)
              \/ /\ r[3] + 2 <= Len(t)
                 /\ t[r[3] + 1] = "."
                 /\ \A p \in (r[3] + 2)..Len(t) : digit(t[p]) }

\* the grammar of the claim: no blank anywhere, ASCII digits
InClaimedGrammar(t) == Readings(t, FALSE, FALSE) # {}
\* the grammar of CURRENCY_RE
InRegexGrammar(t) == Readings(t, TRUE, TRUE) # {}
\* blanks after the sign allowed, ASCII digits
InAsciiGrammar(t) == Readings(t, TRUE, FALSE) # {}

Reading(t) == CHOOSE r \in Readings(t, TRUE, TRUE) : TRUE
SignOf(t) == Reading(t)[1] = 1
WholeOf(t) == SubSeq(t, Reading(t)[2] + 1, Reading(t)[3])
HasFrac(t) == Reading(t)[3] < Len(t)
FracOf(t) == SubSeq(t, Reading(t)[3] + 2, Len(t))

RECURSIVE StripZeros(_)
StripZeros(run) ==
    IF Len(run) > 1 /\ run[1] = "0" THEN StripZeros(Tail(run)) ELSE run

\* the run of ASCII digits denotes a number above limit (limit of 2 to 10 digits)
Exceeds(run, limit) ==
    LET r == StripZeros(run)
        n == Len(Dec(limit))
    IN IF Len(r) # n THEN Len(r) > n
       ELSE \/ RunValue(SubSeq(r, 1, n - 1)) > limit \div 10
            \/ /\ RunValue(SubSeq(r, 1, n - 1)) = limit \div 10
               /\ AsciiValue[r[n]] > limit % 10

\* the fractional run, one digit counting as tenths, denotes 100 or more:
\* a digit other than 0 stands left of its last two
FracOver99(run) == \E p \in 1..(Len(run) - 2) : run[p] # "0"

\* the hundredths a fractional run below 100 denotes: one digit counts as tenths
FracHundredths(run) ==
    IF Len(run) = 1 THEN 10 * AsciiValue[run[1]] ELSE RunValue(run)

-----------------------------------------------------------------------------
(* The claims.                                                             *)

\* C1 (as claimed): parsing the Display string of any Currency v, the most
\* negative i32 included, returns Ok(v).
C1_RoundTrip == (Parsed /\ origin = "value") => res = Ok(cur)

\* C1, what the code does: the round trip holds for every value but i32::MIN,
\* whose text "-21474836.48" fails with IntegerOverflow.
C1_RoundTripAboveMin ==
    (Parsed /\ origin = "value") =>
        IF cur = MinI32 THEN res = Err("IntegerOverflow") ELSE res = Ok(cur)

\* C6: Display writes '-' iff v < 0, then |v / 100| (truncating) in decimal, then,
\* iff v is no multiple of 100, '.' and |v % 100| as exactly two digits.
C6_CanonicalDisplay ==
    Displayed =>
        /\ ShownNeg(s) <=> cur < 0
        /\ Cardinality(ShownDots(s)) <= 1
        /\ ShownDots(s) # {} <=> cur % 100 # 0
        /\ ShownWhole(s) # <<>> /\ AllAscii(ShownWhole(s))
        /\ Len(ShownWhole(s)) > 1 => ShownWhole(s)[1] # "0"
        /\ ShownDots(s) # {} => Len(ShownFrac(s)) = 2 /\ AllAscii(ShownFrac(s))
        /\ LET W == RunValue(ShownWhole(s))
               F == RunValue(ShownFrac(s))
           IN IF cur < 0 THEN -(W * 100) - F = cur ELSE W * 100 + F = cur
        /\ cur = 500 => s = <<"5">>
        /\ cur = 512 => s = <<"5", ".", "1", "2">>
        /\ cur = -512 => s = <<"-", "5", ".", "1", "2">>
        /\ cur = -5 => s = <<"-", "0", ".", "0", "5">>

\* C6 witness: -5 hundredths has been displayed, as "-0.05"
C6_Witness == Displayed /\ cur = -5 /\ s = <<"-", "0", ".", "0", "5">>

C3_FracAlwaysRejected ==
    LET t == Trimmed(s)
    IN (Parsed /\ origin = "text" /\ InClaimedGrammar(t) /\ HasFrac(t)
        /\ FracOver99(FracOf(t))) => res = Err("FracGreaterThan99")

\* C3 (amended): such an input fails with FracGreaterThan99 when its whole part and
\* its fractional run both fit an i32, and with IntegerOverflow when one of them
\* does not.
C3_FracRejectedWithinI32 ==
    LET t == Trimmed(s)
    IN (Parsed /\ origin = "text" /\ InAsciiGrammar(t) /\ HasFrac(t)
        /\ FracOver99(FracOf(t))) =>
           IF Exceeds(WholeOf(t), MaxI32) \/ Exceeds(FracOf(t), MaxI32)
           THEN res = Err("IntegerOverflow")
           ELSE res = Err("FracGreaterThan99")

\* C3 witness: "123.123" was rejected with FracGreaterThan99
C3_Witness ==
    /\ Parsed /\ origin = "text"
    /\ s = <<"1", "2", "3", ".", "1", "2", "3">>
    /\ res = Err("FracGreaterThan99")

\* C4 (as claimed): every input of the grammar whose whole part is above
\* i32::MAX / 100 fails with IntegerOverflow, whatever its sign and fraction.
C4_AlwaysIntegerOverflow ==
    LET t == Trimmed(s)
    IN (Parsed /\ origin = "text" /\ InClaimedGrammar(t)
        /\ Exceeds(WholeOf(t), MaxI32 \div 100)) => res = Err("IntegerOverflow")

\* C4 (amended): such an input never parses to an Ok value; it fails with
\* IntegerOverflow, except that a whole part that fits an i32 followed by a
\* fractional run that fits an i32 and denotes 100 or more fails with
\* FracGreaterThan99.
C4_NeverOk ==
    LET t == Trimmed(s)
    IN (Parsed /\ origin = "text" /\ InRegexGrammar(t) /\ AllAscii(WholeOf(t))
        /\ Exceeds(WholeOf(t), MaxI32 \div 100)) =>
           /\ res.tag # "Ok"
           /\ IF /\ ~Exceeds(WholeOf(t), MaxI32)
                 /\ HasFrac(t) /\ AllAscii(FracOf(t))
                 /\ FracOver99(FracOf(t)) /\ ~Exceeds(FracOf(t), MaxI32)
              THEN res = Err("FracGreaterThan99")
              ELSE res = Err("IntegerOverflow")

\* C4 witness: "-21474837.00" was rejected with IntegerOverflow
C4_Witness ==
    /\ Parsed /\ origin = "text" /\ res = Err("IntegerOverflow")
    /\ s = <<"-">> \o Dec(MaxI32 \div 100 + 1) \o <<".", "0", "0">>

\* C5: an accepted input yields sign * (whole * 100 + frac) hundredths, no fraction
\* counting as 0 and a one-digit fraction as tenths; "W.d" parses as "W.d0" does.
C5_ParsedValue ==
    LET t == Trimmed(s)
    IN (Parsed /\ origin = "text") =>
        /\ res.tag = "Ok" =>
             /\ InAsciiGrammar(t)
             /\ LET W == RunValue(WholeOf(t))
                    F == IF HasFrac(t) THEN FracHundredths(FracOf(t)) ELSE 0
                IN res.val = IF SignOf(t) THEN -(W * 100 + F) ELSE W * 100 + F
        /\ (InRegexGrammar(t) /\ HasFrac(t) /\ Len(FracOf(t)) = 1) =>
             from_str(t \o <<"0">>) = res
        /\ s \in {<<"3", ".", "5">>, <<"3", ".", "5", "0">>} => res = Ok(350)

\* C5 witness: "3.5" was parsed to 350 hundredths
C5_Witness == Parsed /\ origin = "text" /\ s = <<"3", ".", "5">> /\ res = Ok(350)

\* C8: from_str returns Ok of an i32 or one of MatchFailed, FracGreaterThan99,
\* IntegerOverflow: it never faults, whatever the build's overflow checks.
C8_TotalTyped ==
    Parsed =>
        \/ res.tag = "Ok" /\ MinI32 <= res.val /\ res.val <= MaxI32 /\ res.err = "None"
        \/ res.tag = "Err" /\ res.err \in {"MatchFailed", "FracGreaterThan99", "IntegerOverflow"}

\* C8 witness: in a build with overflow checks, "21474836.47" was parsed to the
\* largest Currency
C8_Witness ==
    /\ Parsed /\ origin = "text" /\ overflow_checks
    /\ s = Dec(MaxI32 \div 100) \o <<".", "4", "7">>
    /\ res = Ok(MaxI32)

\* C7 (as claimed): for all pairs (a, b) the assertions a - a = 0, a + a - a = a,
\* a + b - b = a, b + a - a = b and those on a2 after each compound assignment
\* all pass.
C7_GroupLawsAllPairs ==
    /\ verdict \in {"running", "passed"}
    /\ k = 2 => a2 = add(I32(a), I32(a))
    /\ k = 3 => a2 = I32(a)
    /\ k = 4 => a2 = add(I32(a), I32(b))
    /\ k = 5 => a2 = add(add(I32(a), I32(b)), I32(b))
    /\ k = 6 => a2 = I32(b)

\* an intermediate result of the scenario's first k steps leaves the i32 range
Overflowed(step) ==
    \/ step >= 1 /\ (AddOverflows(a, a) \/ AddOverflows(a, b) \/ AddOverflows(b, b))
    \/ step >= 5 /\ ~AddOverflows(a, b) /\ AddOverflows(a + b, b)

\* C7 (amended): no assertion ever fails; in a build that wraps on overflow all
\* pass for all pairs; in a build with overflow checks they pass for the pairs
\* whose intermediate sums stay within i32, and the scenario panics on the others.
C7_GroupLawsUnlessPanic ==
    /\ verdict # "assert_failed"
    /\ verdict = "panicked" <=> (overflow_checks /\ Overflowed(k))
    /\ verdict # "panicked" =>
         /\ k >= 1 => /\ sub(add(I32(a), I32(a)), I32(a)) = I32(a)
                      /\ sub(add(I32(a), I32(b)), I32(b)) = I32(a)
                      /\ sub(add(I32(b), I32(a)), I32(a)) = I32(b)
                      /\ sub(I32(a), I32(a)) = I32(0)
         /\ k = 2 => a2 = add(I32(a), I32(a))
         /\ k = 3 => a2 = I32(a)
         /\ k = 4 => a2 = add(I32(a), I32(b))
         /\ k = 5 => a2 = add(add(I32(a), I32(b)), I32(b))
         /\ k = 6 => a2 = I32(b) /\ verdict = "passed"

\* C7 witness: in a wrapping build the scenario ran to its end on a = i32::MAX,
\* b = -999 (a + a wraps) and left a2 = b
C7_Witness ==
    /\ ~overflow_checks /\ a = MaxI32 /\ b = -999 /\ k = 6 /\ a2 = I32(-999)
    /\ verdict = "passed"

Answered == outcome # NoOutcome

\* the client has not authenticated: no session cookie, an undecodable one, or a
\* session naming a user the table does not hold
Unauthenticated ==
    \/ cookie.kind \in {"absent", "undecodable"}
    \/ cookie.kind = "session" /\ cookie.username \notin users

\* C9 (as claimed): a request of a client that has not authenticated never yields
\* Success, and the outcome it yields is a 401 rejection.
C9_Unauthorized401 ==
    (Answered /\ Unauthenticated) =>
        /\ outcome.kind # "Success"
        /\ outcome = Failure(Unauthorized)

\* C9, what the code does: such a request never yields Success, and is forwarded
\* or fails with 500, never with 401.
C9_NeverSuccess ==
    /\ (Answered /\ Unauthenticated) =>
          outcome \in {Forward, Failure(InternalServerError)}
    /\ outcome # Failure(Unauthorized)

\* C10: with SESSION_LIFETIME a number L, Success is returned only for a session
\* with last_seen <= now and now - last_seen <= L; an older session is forwarded
\* and one last seen in the future fails with 500, both without a database call.
C10_SessionExpiry ==
    (Answered /\ lifetime.kind = "number") =>
        /\ outcome.kind = "Success" =>
              /\ cookie.kind = "session"
              /\ cookie.last_seen <= now
              /\ now - cookie.last_seen <= lifetime.n
        /\ (cookie.kind = "session" /\ cookie.last_seen <= now
            /\ now - cookie.last_seen > lifetime.n) =>
              outcome = Forward /\ db_calls = <<>>
        /\ (cookie.kind = "session" /\ cookie.last_seen > now) =>
              outcome = Failure(InternalServerError) /\ db_calls = <<>>

\* C10 witness: with a lifetime of 1 second, the session of a user of the table,
\* last seen 2 seconds ago, was forwarded without a database call
C10_Witness ==
    /\ Answered /\ lifetime = Seconds(1)
    /\ cookie.kind = "session" /\ cookie.username \in users
    /\ now - cookie.last_seen = 2
    /\ outcome = Forward /\ db_calls = <<>>

\* the page model that view unwraps for the page shown, NonePage for NotFound
Shown(m) ==
    CASE m.page = "Store" -> m.store_page
      [] m.page = "TransactionHistory" -> m.transactions_page
      [] m.page = "Analytics" -> m.analytics_page
      [] m.page = "Deposit" -> m.deposition_page
      [] m.page = "NotFound" -> NonePage

\* C11: once a ChangePage has been processed, whatever messages follow, the page
\* model of the page shown is Some whenever the page is Store, TransactionHistory,
\* Analytics or Deposit, so view never unwraps a None; transactions_page is Some
\* only while the page is TransactionHistory.
C11_PageModelPresent ==
    /\ changed =>
         /\ model.page # "NotFound" => Shown(model).some
         /\ rendered # "panic"
    /\ model.transactions_page.some => model.page = "TransactionHistory"

\* C11 witness: after Store and Analytics were visited and page messages changed
\* their models, the transaction history is shown, drawn from its own model
C11_Witness ==
    /\ changed
    /\ model.page = "TransactionHistory" /\ model.transactions_page.some
    /\ model.store_page = SomePage(1) /\ model.analytics_page = SomePage(1)
    /\ model.error = "none"
    /\ rendered = "TransactionHistory"

=============================================================================
